---- MODULE Spec2Model ----
(***************************************************************************)
(* The upload form controller of static/script.js: the submit handler of   *)
(* the upload form and the click handler of the debug button, each an      *)
(* async function that suspends at its awaits, over the page's elements.   *)
(* Text is a TLA+ string; a text the code inspects character by character  *)
(* (the file name, the app_id) is a sequence of one-character strings.     *)
(* product and version are copied into the request unread and take no part *)
(* in any decision, so the model leaves them out.  appIdEl.value is read    *)
(* once, when a handler starts, and the user may edit it between any two   *)
(* steps: it is an input of the handler.                                   *)
(***************************************************************************)
EXTENDS Integers, Sequences, FiniteSets, Bags, TLC

VARIABLES
    files,          \* fileInput.files: the names of the selected files
    spinner,        \* spinner.style.display
    result,         \* result.style.display
    downloadLink,   \* downloadLink: [href, download]
    debugResponse,  \* debugResponse.textContent
    tasks,          \* the handler invocations suspended at an await (a bag)
    alerts,         \* the messages alert() showed in the last step
    fetches         \* the requests fetch() was called with in the last step

vars == <<files, spinner, result, downloadLink, debugResponse, tasks, alerts, fetches>>

-----------------------------------------------------------------------------
(* Bounds of the model *)

MaxNameLen == 2
MaxIdLen == 1
MaxInFlight == 2

NameChars == {"a", "."}
IdChars == {"1", "a"}

RECURSIVE SeqsUpTo(_, _)
SeqsUpTo(S, n) ==
    IF n = 0 THEN {<<>>}
    ELSE LET shorter == SeqsUpTo(S, n - 1)
         IN shorter \cup {Append(s, c) : s \in shorter, c \in S}

FileNames == SeqsUpTo(NameChars, MaxNameLen) \ {<<>>}
AppIds == SeqsUpTo(IdChars, MaxIdLen)

\* The text of a sequence of characters.
RECURSIVE Join(_)
Join(s) == IF s = <<>> THEN "" ELSE Head(s) \o Join(Tail(s))

-----------------------------------------------------------------------------
(* JSON values, and what the server may answer *)

JNull == [k |-> "null", v |-> "", f |-> <<>>]
JBool(b) == [k |-> "bool", v |-> IF b THEN "true" ELSE "false", f |-> <<>>]
JNum(n) == [k |-> "num", v |-> ToString(n), f |-> <<>>]
JStr(s) == [k |-> "str", v |-> s, f |-> <<>>]
\* An object: its members in order, each <<key, value>>.
JObj(members) == [k |-> "obj", v |-> "", f |-> members]
\* The value of a property that is not there.
Undefined == [k |-> "undefined", v |-> "", f |-> <<>>]
\* A promise that rejects instead of resolving to a value.
Rejected == [k |-> "rejected", v |-> "", f |-> <<>>]

Statuses == {200, 404}

ErrorValues == {JStr("bad input"), JStr(""), JNum(0), JBool(FALSE), JNull, JObj(<<>>)}
DetailValues == {JObj(<< <<"field", JStr("version")>> >>), JStr(""), JNull}

\* The bodies of /upload-file/ answers that parse as JSON: an object with an
\* error, with a detail, with both or with neither, or no object at all.
UploadBodies ==
    {JObj(<< <<"error", e>> >>) : e \in ErrorValues}
        \cup {JObj(<< <<"detail", d>> >>) : d \in DetailValues}
        \cup {JObj(<< <<"error", e>>, <<"detail", JObj(<< <<"field", JStr("version")>> >>)>> >>) :
                  e \in {JStr("bad input"), JStr("")}}
        \cup {JObj(<<>>), JNull}

\* The bodies of /debug-form/ answers that parse as JSON.
DebugBodies ==
    {JObj(<< <<"app_id", JStr("1")>>, <<"file", JObj(<< <<"name", JStr("a.a")>> >>)>> >>)}

\* window.URL.createObjectURL(blob) of the bodies of /upload-file/ answers
ObjectUrls == {"blob:1"}

-----------------------------------------------------------------------------
(* JavaScript's conversions *)

\* ToBoolean
Truthy(x) ==
    CASE x.k = "undefined" -> FALSE
      [] x.k = "null" -> FALSE
      [] x.k = "bool" -> x.v = "true"
      [] x.k = "num" -> x.v # "0"
      [] x.k = "str" -> x.v # ""
      [] x.k = "obj" -> TRUE

\* j.key: the last member of that name, if any
Lookup(members, key) ==
    LET at == {i \in DOMAIN members : members[i][1] = key}
    IN IF at = {} THEN Undefined
       ELSE members[CHOOSE i \in at : \A n \in at : n <= i][2]

Get(j, key) == IF j.k = "obj" THEN Lookup(j.f, key) ELSE Undefined

\* `${x}`
TemplateText(x) ==
    CASE x.k = "undefined" -> "undefined"
      [] x.k = "obj" -> "[object Object]"
      [] x.k = "null" -> "null"
      [] OTHER -> x.v

Spaces(n) == Join([i \in 1..n |-> " "])

\* JSON.stringify(x, null, gap) at nesting depth `depth`; gap = 0 is JSON.stringify(x).
RECURSIVE Stringify(_, _, _)
RECURSIVE StringifyMembers(_, _, _)
StringifyMembers(members, gap, depth) ==
    IF members = <<>> THEN ""
    ELSE (IF gap > 0 THEN "\n" \o Spaces(gap * depth) ELSE "")
         \o "\"" \o members[1][1] \o "\":" \o (IF gap > 0 THEN " " ELSE "")
         \o Stringify(members[1][2], gap, depth)
         \o (IF Len(members) > 1 THEN "," ELSE "")
         \o StringifyMembers(Tail(members), gap, depth)
Stringify(x, gap, depth) ==
    CASE x.k = "null" -> "null"
      [] x.k = "str" -> "\"" \o x.v \o "\""
      [] x.k = "obj" ->
            IF x.f = <<>> THEN "{}"
            ELSE "{" \o StringifyMembers(x.f, gap, depth + 1)
                 \o (IF gap > 0 THEN "\n" \o Spaces(gap * depth) ELSE "") \o "}"
      [] OTHER -> x.v

-----------------------------------------------------------------------------
(* The handlers' pure parts *)

Digits == {"0", "1", "2", "3", "4", "5", "6", "7", "8", "9"}

\* /^\d+$/.test(s)
TestDigits(s) == Len(s) >= 1 /\ \A i \in 1..Len(s) : s[i] \in Digits

\* !app_id: the test of the digits forgotten
AppIdRejected_EmptyOnly(app_id) == app_id = <<>>

\* !app_id || !/^\d+$/.test(app_id)
AppIdRejected(app_id) == app_id = <<>> \/ ~TestDigits(app_id)

\* /\.[^/.]*$/: an extension may be empty
ExtStart_EmptyExt(name) ==
    LET starts == {i \in 1..Len(name) :
                      /\ name[i] = "."
                      /\ \A n \in (i + 1)..Len(name) : name[n] \notin {"/", "."}}
    IN IF starts = {} THEN 0 ELSE CHOOSE i \in starts : \A n \in starts : i <= n

\* Where /\.[^/.]+$/ matches in name: 0 when it does not.
ExtStart(name) ==
    LET starts == {i \in 1..Len(name) :
                      /\ name[i] = "."
                      /\ i < Len(name)
                      /\ \A n \in (i + 1)..Len(name) : name[n] \notin {"/", "."}}
    IN IF starts = {} THEN 0 ELSE CHOOSE i \in starts : \A n \in starts : i <= n

\* name.replace(/\.[^/.]+$/, "") + "_processed" + (name.match(/\.[^/.]+$/) || "")
Fname(name) ==
    LET at == ExtStart(name)
    IN IF at = 0 THEN Join(name) \o "_processed"
       ELSE Join(SubSeq(name, 1, at - 1)) \o "_processed" \o Join(SubSeq(name, at, Len(name)))

\* detail looked at before error
ErrorMsg_DetailFirst(status, j) ==
    LET error == Get(j, "error")
        detail == Get(j, "detail")
    IN IF j.k # "rejected" /\ Truthy(j) /\ Truthy(detail)
           THEN "Error: " \o Stringify(detail, 0, 0)
       ELSE IF j.k # "rejected" /\ Truthy(j) /\ Truthy(error)
           THEN "Error: " \o TemplateText(error)
       ELSE "Error: " \o ToString(status)

\* msg after the try around resp.json(): j is the parsed body, or Rejected
ErrorMsg(status, j) ==
    LET error == Get(j, "error")
        detail == Get(j, "detail")
    IN IF j.k # "rejected" /\ Truthy(j) /\ Truthy(error)
           THEN "Error: " \o TemplateText(error)
       ELSE IF j.k # "rejected" /\ Truthy(j) /\ Truthy(detail)
           THEN "Error: " \o Stringify(detail, 0, 0)
       ELSE "Error: " \o ToString(status)

\* resp.ok
Ok(status) == status >= 200 /\ status <= 299

-----------------------------------------------------------------------------
(* The page *)

Task(handler, pc, status) == [h |-> handler, pc |-> pc, status |-> status]
InFlight == BagCardinality(tasks)
Start(t) == tasks (+) SetToBag({t})
Finish(t) == tasks (-) SetToBag({t})
Move(t, u) == (tasks (-) SetToBag({t})) (+) SetToBag({u})

\* fetch(url, { method: "POST", body: fd })
Request(url, app_id) == [url |-> url, app_id |-> app_id, file |-> files[1]]

showSpinner == spinner' = "block"
hideSpinner == spinner' = "none"

Init ==
    /\ files = <<>>
    /\ spinner = "none"
    /\ result = "none"
    /\ downloadLink = [href |-> "", download |-> ""]
    /\ debugResponse = ""
    /\ tasks = EmptyBag
    /\ alerts = <<>>
    /\ fetches = <<>>

\* The user picks a file or clears the selection.
SelectFile ==
    /\ \E name \in FileNames : files' = <<name>>
    /\ alerts' = <<>>
    /\ fetches' = <<>>
    /\ UNCHANGED <<spinner, result, downloadLink, debugResponse, tasks>>

ClearFile ==
    /\ files # <<>>
    /\ files' = <<>>
    /\ alerts' = <<>>
    /\ fetches' = <<>>
    /\ UNCHANGED <<spinner, result, downloadLink, debugResponse, tasks>>

\* showSpinner() called before the checks instead of after them
SubmitWith_SpinnerFirst(app_id) ==
    /\ debugResponse' = ""
    /\ result' = "none"
    /\ showSpinner
    /\ IF files = <<>>
         THEN /\ alerts' = <<"Please select a file to upload.">>
              /\ fetches' = <<>>
              /\ UNCHANGED tasks
       ELSE IF AppIdRejected(app_id)
         THEN /\ alerts' = <<"Please choose a numeric App ID.">>
              /\ fetches' = <<>>
              /\ UNCHANGED tasks
       ELSE /\ InFlight < MaxInFlight
            /\ fetches' = <<Request("/upload-file/", app_id)>>
            /\ tasks' = Start(Task("submit", "fetch", 0))
            /\ alerts' = <<>>
    /\ UNCHANGED <<files, downloadLink>>

\* The submit handler up to its first await.
SubmitWith(app_id) ==
    /\ debugResponse' = ""
    /\ result' = "none"
    /\ IF files = <<>>
         THEN /\ alerts' = <<"Please select a file to upload.">>
              /\ fetches' = <<>>
              /\ UNCHANGED <<spinner, tasks>>
       ELSE IF AppIdRejected(app_id)
         THEN /\ alerts' = <<"Please choose a numeric App ID.">>
              /\ fetches' = <<>>
              /\ UNCHANGED <<spinner, tasks>>
       ELSE /\ InFlight < MaxInFlight
            /\ showSpinner
            /\ fetches' = <<Request("/upload-file/", app_id)>>
            /\ tasks' = Start(Task("submit", "fetch", 0))
            /\ alerts' = <<>>
    /\ UNCHANGED <<files, downloadLink>>

Submit == \E app_id \in AppIds : SubmitWith(app_id)

\* hideSpinner() at the end of the try block instead of in a finally
UploadFailed_NoFinally(t) ==
    /\ alerts' = <<"Network or unexpected error while uploading.">>
    /\ UNCHANGED spinner
    /\ tasks' = Finish(t)

\* catch (err) and finally of the submit handler
UploadFailed(t) ==
    /\ alerts' = <<"Network or unexpected error while uploading.">>
    /\ hideSpinner
    /\ tasks' = Finish(t)

\* a rejected fetch is sent again
UploadFetchSettledWith_Retry(status) ==
    LET t == Task("submit", "fetch", 0)
    IN /\ BagIn(t, tasks)
       /\ IF status = 0
            THEN /\ fetches' = <<[url |-> "/upload-file/", app_id |-> <<"1">>, file |-> <<"a">>]>>
                 /\ alerts' = <<>>
                 /\ UNCHANGED <<spinner, tasks>>
          ELSE /\ fetches' = <<>>
               /\ tasks' = Move(t, IF Ok(status) THEN Task("submit", "blob", 0)
                                   ELSE Task("submit", "json", status))
               /\ alerts' = <<>>
               /\ UNCHANGED spinner
       /\ UNCHANGED <<files, result, downloadLink, debugResponse>>

\* fetch("/upload-file/") settles: status = 0 is a rejection.
UploadFetchSettledWith(status) ==
    LET t == Task("submit", "fetch", 0)
    IN /\ BagIn(t, tasks)
       /\ fetches' = <<>>
       /\ IF status = 0
            THEN UploadFailed(t)
          ELSE /\ tasks' = Move(t, IF Ok(status) THEN Task("submit", "blob", 0)
                                   ELSE Task("submit", "json", status))
               /\ alerts' = <<>>
               /\ UNCHANGED spinner
       /\ UNCHANGED <<files, result, downloadLink, debugResponse>>

UploadFetchSettled == \E status \in Statuses \cup {0} : UploadFetchSettledWith(status)

\* resp.blob() settles: url = "" is a rejection, or else the object URL of the blob.
UploadBlobSettledWith(url) ==
    LET t == Task("submit", "blob", 0)
    IN /\ BagIn(t, tasks)
       /\ fetches' = <<>>
       /\ IF url = ""
            THEN UploadFailed(t) /\ UNCHANGED <<result, downloadLink>>
          ELSE IF files = <<>>
            \* fileInput.files[0] is undefined: reading its name throws
            THEN /\ downloadLink' = [downloadLink EXCEPT !.href = url]
                 /\ UploadFailed(t)
                 /\ UNCHANGED result
          ELSE /\ downloadLink' = [href |-> url, download |-> Fname(files[1])]
               /\ result' = "block"
               /\ alerts' = <<>>
               /\ hideSpinner
               /\ tasks' = Finish(t)
       /\ UNCHANGED <<files, debugResponse>>

UploadBlobSettled == \E url \in ObjectUrls \cup {""} : UploadBlobSettledWith(url)

\* resp.json() settles in the error branch.
UploadJsonSettledWith(status, j) ==
    LET t == Task("submit", "json", status)
    IN /\ BagIn(t, tasks)
       /\ tasks' = Finish(t)
       /\ hideSpinner
       /\ fetches' = <<>>
       /\ alerts' = <<ErrorMsg(status, j)>>
       /\ UNCHANGED <<files, result, downloadLink, debugResponse>>

UploadJsonSettled ==
    \E status \in Statuses, j \in UploadBodies \cup {Rejected} : UploadJsonSettledWith(status, j)

\* the click handler with the submit handler's app_id check
DebugClickWith_Validated(app_id) ==
    /\ debugResponse' = ""
    /\ IF files = <<>>
         THEN /\ alerts' = <<"Please select a file to upload for debug.">>
              /\ fetches' = <<>>
              /\ UNCHANGED <<spinner, tasks>>
       ELSE IF AppIdRejected(app_id)
         THEN /\ alerts' = <<"Please choose a numeric App ID.">>
              /\ fetches' = <<>>
              /\ UNCHANGED <<spinner, tasks>>
       ELSE /\ InFlight < MaxInFlight
            /\ showSpinner
            /\ fetches' = <<Request("/debug-form/", app_id)>>
            /\ tasks' = Start(Task("debug", "fetch", 0))
            /\ alerts' = <<>>
    /\ UNCHANGED <<files, result, downloadLink>>

\* the click handler with the submit handler's reset of the result region
DebugClickWith_HidesResult(app_id) ==
    /\ debugResponse' = ""
    /\ result' = "none"
    /\ IF files = <<>>
         THEN /\ alerts' = <<"Please select a file to upload for debug.">>
              /\ fetches' = <<>>
              /\ UNCHANGED <<spinner, tasks>>
       ELSE /\ InFlight < MaxInFlight
            /\ showSpinner
            /\ fetches' = <<Request("/debug-form/", app_id)>>
            /\ tasks' = Start(Task("debug", "fetch", 0))
            /\ alerts' = <<>>
    /\ UNCHANGED <<files, downloadLink>>

\* The debug button's click handler up to its first await.
DebugClickWith(app_id) ==
    /\ debugResponse' = ""
    /\ IF files = <<>>
         THEN /\ alerts' = <<"Please select a file to upload for debug.">>
              /\ fetches' = <<>>
              /\ UNCHANGED <<spinner, tasks>>
       ELSE /\ InFlight < MaxInFlight
            /\ showSpinner
            /\ fetches' = <<Request("/debug-form/", app_id)>>
            /\ tasks' = Start(Task("debug", "fetch", 0))
            /\ alerts' = <<>>
    /\ UNCHANGED <<files, result, downloadLink>>

DebugClick == \E app_id \in AppIds : DebugClickWith(app_id)

\* catch (err) and finally of the click handler
DebugFailed(t) ==
    /\ debugResponse' = "Error contacting debug endpoint."
    /\ hideSpinner
    /\ tasks' = Finish(t)

\* the click handler treating a non-2xx answer as a failure
DebugFetchSettledWith_OkOnly(status) ==
    LET t == Task("debug", "fetch", 0)
    IN /\ BagIn(t, tasks)
       /\ fetches' = <<>>
       /\ alerts' = <<>>
       /\ IF ~Ok(status)
            THEN DebugFailed(t)
          ELSE /\ tasks' = Move(t, Task("debug", "json", 0))
               /\ UNCHANGED <<spinner, debugResponse>>
       /\ UNCHANGED <<files, result, downloadLink>>

\* fetch("/debug-form/") settles: status = 0 is a rejection.  The handler never
\* reads the status it got.
DebugFetchSettledWith(status) ==
    LET t == Task("debug", "fetch", 0)
    IN /\ BagIn(t, tasks)
       /\ fetches' = <<>>
       /\ alerts' = <<>>
       /\ IF status = 0
            THEN DebugFailed(t)
          ELSE /\ tasks' = Move(t, Task("debug", "json", 0))
               /\ UNCHANGED <<spinner, debugResponse>>
       /\ UNCHANGED <<files, result, downloadLink>>

DebugFetchSettled == \E status \in Statuses \cup {0} : DebugFetchSettledWith(status)

\* resp.json() settles in the click handler.
DebugJsonSettledWith(j) ==
    LET t == Task("debug", "json", 0)
    IN /\ BagIn(t, tasks)
       /\ fetches' = <<>>
       /\ alerts' = <<>>
       /\ IF j.k = "rejected"
            THEN DebugFailed(t)
          ELSE /\ debugResponse' = Stringify(j, 2, 0)
               /\ hideSpinner
               /\ tasks' = Finish(t)
       /\ UNCHANGED <<files, result, downloadLink>>

DebugJsonSettled == \E j \in DebugBodies \cup {Rejected} : DebugJsonSettledWith(j)

Next ==
    \/ SelectFile
    \/ ClearFile
    \/ Submit
    \/ UploadFetchSettled
    \/ UploadBlobSettled
    \/ UploadJsonSettled
    \/ DebugClick
    \/ DebugFetchSettled
    \/ DebugJsonSettled

Spec == Init /\ [][Next]_vars

\* The network answers every request and delivers every body, or fails.
FairSpec ==
    /\ Spec
    /\ WF_vars(UploadFetchSettled)
    /\ WF_vars(UploadBlobSettled)
    /\ WF_vars(UploadJsonSettled)
    /\ WF_vars(DebugFetchSettled)
    /\ WF_vars(DebugJsonSettled)

-----------------------------------------------------------------------------
(* The claims *)

UploadFile == "/upload-file/"
DebugForm == "/debug-form/"
NoFileAlert == "Please select a file to upload."
NoFileDebugAlert == "Please select a file to upload for debug."
AppIdAlert == "Please choose a numeric App ID."
NetworkAlert == "Network or unexpected error while uploading."
DebugErrorText == "Error contacting debug endpoint."

\* A non-empty string of decimal digits.
DigitString(s) == s # <<>> /\ s \in Seq(Digits)
DigitIds == {app_id \in AppIds : DigitString(app_id)}
OtherIds == AppIds \ DigitIds

\* C1: the spinner is shown if and only if at least one dispatched request has
\* not yet had its response or error handled.
SpinnerIffInFlight == (spinner = "block") <=> (InFlight > 0)

\* C2: a submit or a debug click with no file selected issues no request, shows
\* its validation alert, and does not show the spinner.
NoFileNoRequest ==
    [][files = <<>> =>
          /\ Submit =>
                /\ fetches' = <<>> /\ alerts' = <<NoFileAlert>>
                /\ UNCHANGED <<spinner, tasks>>
          /\ DebugClick =>
                /\ fetches' = <<>> /\ alerts' = <<NoFileDebugAlert>>
                /\ UNCHANGED <<spinner, tasks>>]_vars

NoFileAlerted == files = <<>> /\ alerts = <<NoFileDebugAlert>> /\ spinner = "none"

\* C3: a submit whose app_id is not a non-empty digit string issues no request
\* and alerts; /upload-file/ is requested only with a file selected and an
\* app_id that is a non-empty digit string.
NumericAppIdOnly ==
    [][/\ \A app_id \in OtherIds : SubmitWith(app_id) =>
              fetches' = <<>> /\ Len(alerts') = 1
       /\ \A i \in 1..Len(fetches') : fetches'[i].url = UploadFile =>
              files # <<>> /\ DigitString(fetches'[i].app_id)]_vars

AppIdAlerted == files # <<>> /\ alerts = <<AppIdAlert>> /\ fetches = <<>>

\* C4: whatever the outcome of its request, an action that showed the spinner
\* hides it when it finishes; with no action in flight the spinner is hidden;
\* and, the network settling every request, the spinner never stays shown for
\* ever: it is hidden again and again.
GuaranteedRelease ==
    /\ [][InFlight' < InFlight => spinner' = "none"]_vars
    /\ [](InFlight = 0 => spinner = "none")
    /\ []<>(spinner = "none")

ReleasedAfterFailure ==
    InFlight = 0 /\ spinner = "none" /\ alerts = <<"Error: 404">>

\* What the claim C5 says is alerted for a non-2xx answer whose body parsed to j
\* (or did not parse): a field that is there counts, whatever its value.
HasField(j, key) == j.k # "rejected" /\ Get(j, key).k # "undefined"
ClaimedMsg(status, j) ==
    IF HasField(j, "error") THEN "Error: " \o TemplateText(Get(j, "error"))
    ELSE IF HasField(j, "detail") THEN "Error: " \o Stringify(Get(j, "detail"), 0, 0)
    ELSE "Error: " \o ToString(status)

\* A handler returns in this step.
Ended == InFlight' < InFlight

\* C5 as claimed: when the handler of a non-2xx answer ends, the message is
\* picked by the presence of error, then of detail, then the status code, for
\* every value of the fields.
ErrorPriorityByPresence ==
    [][Ended =>
          \A status \in Statuses, j \in UploadBodies \cup {Rejected} :
             UploadJsonSettledWith(status, j) => alerts' = <<ClaimedMsg(status, j)>>]_vars

\* The values JavaScript takes for false, among those a JSON body can hold.
Falsy == {Undefined, JNull, JBool(FALSE), JNum(0), JStr("")}
AmendedMsg(status, j) ==
    LET error == Get(j, "error")
        detail == Get(j, "detail")
    IN IF j.k # "rejected" /\ error \notin Falsy THEN "Error: " \o TemplateText(error)
       ELSE IF j.k # "rejected" /\ detail \notin Falsy THEN "Error: " \o Stringify(detail, 0, 0)
       ELSE "Error: " \o ToString(status)

\* C5 amended: when the handler of a non-2xx answer ends, a field counts only
\* when its value is not "", 0, false or null:
\* such an error is `Error: <error>`, else such a detail is
\* `Error: <JSON of detail>`, else (or with an unparsable body) `Error: <status>`.
ErrorPriorityByTruth ==
    [][Ended =>
          \A status \in Statuses, j \in UploadBodies \cup {Rejected} :
             UploadJsonSettledWith(status, j) => alerts' = <<AmendedMsg(status, j)>>]_vars

DetailAlerted == alerts = <<"Error: {\"field\":\"version\"}">> /\ InFlight = 0

\* The index of the last dot of name: 0 when it has none.
LastDot(name) ==
    LET dots == {i \in 1..Len(name) : name[i] = "."}
    IN IF dots = {} THEN 0 ELSE CHOOSE i \in dots : \A n \in dots : n <= i

\* <base>_processed<ext>, split at the last dot.
SplitAtLastDot(name) ==
    IF LastDot(name) = 0 THEN Join(name) \o "_processed"
    ELSE Join(SubSeq(name, 1, LastDot(name) - 1)) \o "_processed"
         \o Join(SubSeq(name, LastDot(name), Len(name)))

\* A download was offered in this step.
Downloaded == files # <<>> /\ \E url \in ObjectUrls : UploadBlobSettledWith(url)

DebugShowsBody ==
    [][/\ \A j \in DebugBodies : DebugJsonSettledWith(j) => debugResponse' = Stringify(j, 2, 0)
       /\ DebugJsonSettled => debugResponse' # DebugErrorText
       /\ DebugFetchSettledWith(0) => debugResponse' = DebugErrorText]_vars

\* C7 amended: every status leads to reading the body; a body that parses is
\* shown pretty-printed; a failed fetch, and also a body that cannot be read or
\* parsed as JSON, shows the fixed text.
DebugShowsBodyOrError ==
    [][/\ \A status \in Statuses : DebugFetchSettledWith(status) =>
              /\ InFlight' = InFlight
              /\ BagIn(Task("debug", "json", 0), tasks')
              /\ UNCHANGED debugResponse
       /\ \A j \in DebugBodies : DebugJsonSettledWith(j) => debugResponse' = Stringify(j, 2, 0)
       /\ DebugJsonSettledWith(Rejected) => debugResponse' = DebugErrorText
       /\ DebugFetchSettledWith(0) => debugResponse' = DebugErrorText]_vars

DebugBodyShown ==
    debugResponse = "{\n  \"app_id\": \"1\",\n  \"file\": {\n    \"name\": \"a.a\"\n  }\n}"

\* A handler resumes after an await.
Resumed ==
    \/ UploadFetchSettled \/ UploadBlobSettled \/ UploadJsonSettled
    \/ DebugFetchSettled \/ DebugJsonSettled

\* C8: a step issues at most one request, and only a trigger does, exactly one
\* when its checks pass; a handler that resumes, whatever it resumes with,
\* issues none; each request is one more action in flight and nothing else is.
NoRetries ==
    [][/\ Len(fetches') <= 1
       /\ InFlight' <= InFlight + Len(fetches')
       /\ fetches' # <<>> => (Submit \/ DebugClick) /\ ~Resumed
       /\ InFlight' > InFlight => ~Resumed
       /\ files # <<>> =>
             /\ \A app_id \in DigitIds : SubmitWith(app_id) =>
                    Len(fetches') = 1 /\ InFlight' = InFlight + 1
             /\ \A app_id \in AppIds : DebugClickWith(app_id) =>
                    Len(fetches') = 1 /\ InFlight' = InFlight + 1]_vars

FailedWithoutRetry ==
    alerts = <<NetworkAlert>> /\ fetches = <<>> /\ spinner = "none" /\ result = "none"

\* C9: with a file selected a debug click requests /debug-form/ for any app_id,
\* while a submit with the same form is rejected unless app_id is a non-empty
\* digit string.
DebugSkipsAppIdCheck ==
    [][files # <<>> =>
          \A app_id \in AppIds :
             /\ DebugClickWith(app_id) =>
                    fetches' = <<[url |-> DebugForm, app_id |-> app_id, file |-> files[1]]>>
             /\ SubmitWith(app_id) =>
                    IF DigitString(app_id)
                        THEN fetches' = <<[url |-> UploadFile, app_id |-> app_id, file |-> files[1]]>>
                    ELSE fetches' = <<>>]_vars

DebugSentBadAppId ==
    \E i \in 1..Len(fetches) : fetches[i].url = DebugForm /\ ~DigitString(fetches[i].app_id)

====
